---- MODULE Spec2Model ----
(***************************************************************************)
(* eslint-formatter-toml: the custom ESLint formatter of src/formatter.js. *)
(*                                                                         *)
(* The repository's own code is the function formatTOML (lines 10-13): it  *)
(* hands its first parameter to the function imported from the npm package *)
(* json2toml (line 2) and returns what that function returns.  It declares *)
(* one parameter, has no try/catch and no module-level mutable binding.    *)
(*                                                                         *)
(* The converter itself is a third-party package whose code is not part of *)
(* the repository.  It is modelled as the environment: a function of the   *)
(* argument list it receives, whose value at an argument list is arbitrary *)
(* (any TOML text, or a thrown error) and is fixed by the first call made  *)
(* with that argument list.  Nothing about WHAT text it produces is        *)
(* modelled, so properties of the text are outside this model.             *)
(***************************************************************************)
EXTENDS Naturals, FiniteSets, Sequences, TLC

\* Bounds of the model.
MaxResults == 2
MaxContexts == 2
MaxStrings == 2

\* JavaScript's undefined: the value of a parameter no argument was given for.
Undefined == "undefined"
\* The absent half of a completion (no return value, or no error).
None == "<none>"

\* The values a caller may pass as first argument (ESLint's results arrays).
Results == {"results" \o ToString(i) : i \in 1..MaxResults}
\* The values ESLint may pass as second argument (the context object).
Contexts == {"context" \o ToString(i) : i \in 1..MaxContexts}
\* A caller gives the second argument or leaves it out.
SecondArguments == Contexts \cup {Undefined}
\* The texts and the errors the converter may produce.
TomlStrings == {"toml" \o ToString(i) : i \in 1..MaxStrings}
Errors == {"Error"}

\* A completion of a call: a returned value, or a thrown error.
Returned(s) == [value |-> s, error |-> None]
Thrown(e) == [value |-> None, error |-> e]
ConverterCompletions == {Returned(s) : s \in TomlStrings} \cup {Thrown(e) : e \in Errors}
\* No completion yet: the converter was not called with the argument list.
Unknown == [value |-> None, error |-> None]
\* What is recorded of a call of formatTOML that has ended: its arguments,
\* the converter's completion and the call's own completion.
Call(args, conv, out) == [arguments |-> args, conv |-> conv, out |-> out]
\* No such call yet.
NotCalled == Call(<<Undefined, Undefined>>, Unknown, Unknown)

\* The argument lists the imported converter can be called with:
\* <<hash, options>>, options being undefined when not passed.
ConverterArgumentLists == Results \X SecondArguments

VARIABLES
    pc,             \* where the current call of formatTOML is: "idle", "line11", "line12"
    arguments,      \* the arguments of the current call, <<first, second>>
    results,        \* formatTOML's parameter `results`
    tomlResults,    \* formatTOML's local `tomlResults`
    json2toml,      \* the imported converter: argument list -> completion, as far as known
    last,           \* the call that ended last, as its caller observed it
    previous        \* the call that ended before it

vars == <<pc, arguments, results, tomlResults, json2toml, last, previous>>

\* A broken line 11: the second argument is forwarded to the converter.
ConverterArgumentsForwardingContext(args) == <<args[1], args[2]>>

\* Line 11: json2tomlConverter(results) -- one argument, the parameter
\* `results`, which is the first argument of the call; the converter's second
\* parameter is undefined.
ConverterArguments(args) == <<args[1], Undefined>>

\* A broken formatTOML that catches the converter's error and returns "".
CompletionSwallowingError(conv) ==
    IF conv.error # None THEN Returned("") ELSE Returned(conv.value)

\* Lines 10-13 have no try/catch: an error thrown by the converter at line 11
\* leaves formatTOML as that error, with no return value; otherwise line 12
\* returns the converter's value unchanged.
Completion(conv) ==
    IF conv.error # None THEN Thrown(conv.error) ELSE Returned(conv.value)

Init ==
    /\ pc = "idle"
    /\ arguments = <<Undefined, Undefined>>
    /\ results = Undefined
    /\ tomlResults = Undefined
    /\ json2toml = [a \in ConverterArgumentLists |-> Unknown]
    /\ last = NotCalled
    /\ previous = NotCalled

\* Line 10: a caller (ESLint's format hook, or a direct caller) calls
\* formatTOML(r) or formatTOML(r, c).  Only the first argument is bound.
Invoke(r, c) ==
    /\ pc = "idle"
    /\ pc' = "line11"
    /\ arguments' = <<r, c>>
    /\ results' = r
    /\ tomlResults' = Undefined
    /\ UNCHANGED <<json2toml, last, previous>>

\* The call of formatTOML ends, the converter having completed with conv: the
\* caller observes the completion, and the parameters and locals are gone.
Ends(conv) ==
    /\ pc' = "idle"
    /\ previous' = last
    /\ last' = Call(arguments, conv, Completion(conv))
    /\ arguments' = <<Undefined, Undefined>>
    /\ results' = Undefined
    /\ tomlResults' = Undefined

\* The converter's completion for an argument list: the known one, or any.
Converts(a, conv) ==
    /\ conv \in ConverterCompletions
    /\ json2toml[a] \in {Unknown, conv}
    /\ json2toml' = [json2toml EXCEPT ![a] = conv]

\* Line 11, the converter returns: the value is bound to tomlResults.
ConverterReturns ==
    /\ pc = "line11"
    /\ \E conv \in ConverterCompletions :
        /\ conv.error = None
        /\ Converts(ConverterArguments(arguments), conv)
        /\ tomlResults' = conv.value
    /\ pc' = "line12"
    /\ UNCHANGED <<arguments, results, last, previous>>

\* Line 11, the converter throws: the call of formatTOML ends here.
ConverterThrows ==
    /\ pc = "line11"
    /\ \E conv \in ConverterCompletions :
        /\ conv.error # None
        /\ Converts(ConverterArguments(arguments), conv)
        /\ Ends(conv)

\* Line 12: return tomlResults.
Return ==
    /\ pc = "line12"
    /\ Ends(Returned(tomlResults))
    /\ UNCHANGED json2toml

Next ==
    \/ \E r \in Results, c \in SecondArguments : Invoke(r, c)
    \/ ConverterReturns
    \/ ConverterThrows
    \/ Return

Spec == Init /\ [][Next]_vars

TypeOK ==
    /\ pc \in {"idle", "line11", "line12"}
    /\ results \in Results \cup {Undefined}
    /\ tomlResults \in TomlStrings \cup {Undefined}
    /\ \A a \in ConverterArgumentLists : json2toml[a] \in ConverterCompletions \cup {Unknown}

\* The calls of formatTOML that have ended, by their arguments.
Ended == {last, previous} \ {NotCalled}

\* C6: formatTOML takes the results as first argument and an optional second
\* argument; what it returns is a string, and for every results value the
\* outcome is the same whether the second argument is absent or has any value.
C6_SecondArgumentIgnored ==
    \A c1 \in Ended : \A c2 \in Ended :
        /\ c1.out.error = None => c1.out.value \in TomlStrings
        /\ c1.arguments[1] = c2.arguments[1] => c1.out = c2.out

\* C6 happens: the same results were formatted without a second argument and
\* with a context object, and a string came back.
C6_Witness ==
    /\ last # NotCalled
    /\ previous # NotCalled
    /\ last.arguments[1] = previous.arguments[1]
    /\ last.arguments[2] \in Contexts
    /\ previous.arguments[2] = Undefined
    /\ last.out.error = None

\* C10: every ended call of formatTOML has exactly one of two outcomes, the
\* complete string the converter returned or an error; when the converter
\* fails, the caller gets that error and no string: formatTOML does not
\* swallow it.
C10_AllOrNothing ==
    \A c \in Ended :
        /\ (c.out.value = None) # (c.out.error = None)
        /\ c.conv.error # None => c.out = Thrown(c.conv.error)
        /\ c.conv.error = None => c.out = Returned(c.conv.value)

\* C10 happens: the converter threw during a call that has ended.
C10_Witness ==
    \E c \in Ended : c.conv.error # None

====
